---- MODULE Spec2Model ----
(***************************************************************************)
(* muxwm: the workspace repository (src/src/model.rs) over its SQLite      *)
(* store, used by several command-line processes, each with its own        *)
(* Repository and connection on the same database file.                    *)
(*                                                                         *)
(* The three tables are sets of rows.  Every Repository method is one      *)
(* action, except add_view_to_project, which is split at its store         *)
(* statements (read max, insert, commit, update of the active pointer):    *)
(* other processes can run between them.  Strings are sequences of         *)
(* one-character strings.                                                  *)
(***************************************************************************)
EXTENDS Integers, Sequences, FiniteSets, TLC

\* ------------------------------------------------------------- bounds
MaxProjects == 2
MaxViews == 3
MaxPinId == 2

\* The processes (command-line invocations) that share the store.
Procs == {1, 2}

\* Repository::new: default_view_name: "view".to_string()
default_view_name == <<"v", "i", "e", "w">>

\* The separator of the display name, format!("{}#{}", ..) and split("#").
Separator == "#"

\* Names given to add_project and add_view_to_project.
Names == {<<"b">>, <<"c", "#">>}

\* Keys given to upsert_pin and clear_pin.
Keys == {"g"}

\* Keys given to them where the pins are the subject.
PinKeys == {"g", "h"}

VARIABLES
    projects,    \* table projects: rows [id, name, active_view_id]
    views,       \* table views: rows [id, name, project_id, position]
    pins,        \* table pins: rows [id, key, view_id]
    pc,          \* pc[p]: where process p is in add_view_to_project
    call,        \* call[p]: the locals of p's add_view_to_project call
    everActive,  \* view ids that a committed projects row has held as active_view_id
    focused,     \* the name of the window host's focused workspace
    last         \* the step taken last: operation, arguments, result

vars == <<projects, views, pins, pc, call, everActive, focused, last>>

store == <<projects, views, pins>>

\* ------------------------------------------------------------- values
\* Option<View>::None and Option<Project>::None (rowids start at 1).
NoView == [id |-> 0, name |-> <<>>, project_id |-> 0, position |-> 0]
NoProject == [id |-> 0, name |-> <<>>, active_view_id |-> 0]

Max(S) == CHOOSE x \in S : \A y \in S : y <= x

\* The rowid SQLite gives the next row of an INTEGER PRIMARY KEY table.
NewRowid(tbl) == IF tbl = {} THEN 1 ELSE Max({r.id : r \in tbl}) + 1

NoCall == [project_id |-> 0, name |-> <<>>, max_position |-> 0, view |-> NoView]

Step(op, result, project_id, name, view, key, id) ==
    [op |-> op, result |-> result, project_id |-> project_id, name |-> name,
     view |-> view, key |-> key, id |-> id]

\* ------------------------------------------------------------- locks
\* A process between BEGIN..SELECT and INSERT holds a SHARED lock; between
\* INSERT and COMMIT it holds the RESERVED lock.
HoldsShared(q) == pc[q] = "read"
HoldsReserved(q) == pc[q] = "inserted"
SharedByOther(p) == \E q \in Procs \ {p} : HoldsShared(q)
ReservedByOther(p) == \E q \in Procs \ {p} : HoldsReserved(q)
\* A write statement in autocommit, or a transaction's COMMIT, needs the
\* store exclusively: it waits busy_timeout and then fails with SQLITE_BUSY.
LockedByOther(p) == SharedByOther(p) \/ ReservedByOther(p)

InFlight == Cardinality({q \in Procs : pc[q] \in {"read", "inserted"}})

\* ------------------------------------------------------------- statements
\* Mutant: the name column without its UNIQUE constraint.
InsertProject_NoUnique(tbl, name, active_view_id) ==
    [ok |-> TRUE,
     rowid |-> NewRowid(tbl),
     rows |-> tbl \cup {[id |-> NewRowid(tbl), name |-> name,
                         active_view_id |-> active_view_id]}]

\* INSERT INTO projects (name, active_view_id) VALUES (?1, ?2); name is UNIQUE.
InsertProject(tbl, name, active_view_id) ==
    [ok |-> \A r \in tbl : r.name # name,
     rowid |-> NewRowid(tbl),
     rows |-> tbl \cup {[id |-> NewRowid(tbl), name |-> name,
                         active_view_id |-> active_view_id]}]

\* Mutant: the position column filled one too high.
InsertView_BadPosition(tbl, name, project_id, position) ==
    [ok |-> \A r \in tbl : ~(r.project_id = project_id /\ r.position = position + 1),
     rowid |-> NewRowid(tbl),
     rows |-> tbl \cup {[id |-> NewRowid(tbl), name |-> name,
                         project_id |-> project_id, position |-> position + 1]}]

\* INSERT INTO views (name, project_id, position) VALUES (?1, ?2, ?3);
\* UNIQUE(project_id, position).
InsertView(tbl, name, project_id, position) ==
    [ok |-> \A r \in tbl : ~(r.project_id = project_id /\ r.position = position),
     rowid |-> NewRowid(tbl),
     rows |-> tbl \cup {[id |-> NewRowid(tbl), name |-> name,
                         project_id |-> project_id, position |-> position]}]

\* Mutant: the UPDATE without its WHERE clause.
UpdateActiveView_NoWhere(tbl, view_id, project_id) ==
    {[r EXCEPT !.active_view_id = view_id] : r \in tbl}

\* UPDATE projects SET active_view_id = ?1 WHERE id = ?2
UpdateActiveView(tbl, view_id, project_id) ==
    {IF r.id = project_id THEN [r EXCEPT !.active_view_id = view_id] ELSE r : r \in tbl}

\* The deferred foreign keys, checked at COMMIT: views.project_id references
\* projects(id), projects.active_view_id references views(id).
ForeignKeysHold(ptbl, vtbl) ==
    /\ \A v \in vtbl : \E r \in ptbl : r.id = v.project_id
    /\ \A r \in ptbl : \E v \in vtbl : v.id = r.active_view_id

\* Mutant: COUNT(*) in place of MAX(position).
SelectMaxPosition_Count(tbl, project_id) ==
    LET rows == {w \in tbl : w.project_id = project_id}
    IN  IF rows = {} THEN [null |-> TRUE, value |-> 0]
        ELSE [null |-> FALSE, value |-> Cardinality(rows)]

\* SELECT MAX(position) FROM views WHERE project_id = ?: NULL without rows.
SelectMaxPosition(tbl, project_id) ==
    LET ps == {v.position : v \in {w \in tbl : w.project_id = project_id}}
    IN  IF ps = {} THEN [null |-> TRUE, value |-> 0]
        ELSE [null |-> FALSE, value |-> Max(ps)]

\* ------------------------------------------------------------- handles
\* A Project whose row is not in this store (loaded from another store).
MissingProject == [id |-> MaxProjects + 1, name |-> <<"b">>, active_view_id |-> 0]

\* The Project values a caller can hold: a row as it was loaded at some
\* earlier time (id and name never change, active_view_id does).
ProjectHandles ==
    {MissingProject} \cup
    UNION {{[id |-> r.id, name |-> r.name, active_view_id |-> v.id] :
               v \in {w \in views : w.project_id = r.id /\ w.id \in everActive}} :
           r \in projects}

\* The View values a caller can hold: view rows never change or go away.
ViewHandles == views

\* ------------------------------------------------------------- queries
get_view_by_id(id) ==
    IF \E v \in views : v.id = id THEN CHOOSE v \in views : v.id = id ELSE NoView

get_project_by_id(id) ==
    IF \E r \in projects : r.id = id THEN CHOOSE r \in projects : r.id = id
    ELSE NoProject

get_project_by_name(name) ==
    IF \E r \in projects : r.name = name THEN CHOOSE r \in projects : r.name = name
    ELSE NoProject

\* Mutant: the active view of the stored row, not of the value passed in.
get_active_view_for_project_Stored(project) ==
    LET id == get_project_by_id(project.id).active_view_id
    IN  IF \E v \in views : v.id = id
        THEN CHOOSE v \in views : v.id = id
        ELSE NoView

get_active_view_for_project(project) ==
    IF \E v \in views : v.id = project.active_view_id
    THEN CHOOSE v \in views : v.id = project.active_view_id
    ELSE NoView

\* format!("{}#{}", project_name, view.name); None as the empty sequence.
get_window_manager_display_name(view) ==
    IF \E r \in projects : r.id = view.project_id
    THEN (CHOOSE r \in projects : r.id = view.project_id).name
             \o <<Separator>> \o view.name
    ELSE <<>>

\* name.split("#"): the pieces between the separators, empty pieces included.
RECURSIVE Split(_)
Split(name) ==
    IF \A i \in 1..Len(name) : name[i] # Separator THEN <<name>>
    ELSE LET i == CHOOSE k \in 1..Len(name) :
                      /\ name[k] = Separator
                      /\ \A j \in 1..(k - 1) : name[j] # Separator
         IN  <<SubSeq(name, 1, i - 1)>> \o Split(SubSeq(name, i + 1, Len(name)))

\* Mutant: parts.len() < 2 in place of parts.len() != 2.
get_project_from_window_manager_display_name_AtLeastTwo(name) ==
    LET parts == Split(name)
    IN  IF Len(parts) < 2 THEN NoProject
        ELSE get_project_by_name(parts[1])

\* if parts.len() != 2 { return Ok(None) }, then
\* SELECT .. FROM projects WHERE name = parts[0]; the view name is not looked up.
get_project_from_window_manager_display_name(name) ==
    LET parts == Split(name)
    IN  IF Len(parts) # 2 THEN NoProject
        ELSE get_project_by_name(parts[1])

\* if parts.len() != 2 { return Ok(None) }, then
\* SELECT .. FROM projects JOIN views ON projects.id = views.project_id
\* WHERE projects.name = ?1 AND views.name = ?2. The rows of that query;
\* query_row hands out the first, and the statement gives them no order.
get_view_from_window_manager_display_name(name) ==
    LET parts == Split(name)
    IN  IF Len(parts) # 2 THEN {}
        ELSE {v \in views : \E r \in projects : /\ r.id = v.project_id
                                                 /\ r.name = parts[1]
                                                 /\ v.name = parts[2]}

\* Workspace names of the window host that no view was encoded to.
Unmanaged == {<<"1">>, <<"b", Separator, "x">>, <<"x", Separator, "b">>}

\* The names a caller decodes: what the host reports as a workspace name.
DisplayNames == {get_window_manager_display_name(v) : v \in views} \cup Unmanaged

\* Mutant: position >= ? in place of position > ?.
get_next_view_for_project_Geq(project) ==
    LET active_view == get_active_view_for_project(project)
        after == {v \in views : v.project_id = project.id
                                 /\ v.position >= active_view.position}
        all == {v \in views : v.project_id = project.id}
    IN  IF active_view = NoView THEN NoView
        ELSE IF after # {}
        THEN CHOOSE v \in after : \A w \in after : v.position <= w.position
        ELSE IF all # {}
        THEN CHOOSE v \in all : \A w \in all : v.position <= w.position
        ELSE NoView

\* Mutant: without rows above, the last view in place of the first one.
get_next_view_for_project_NoWrap(project) ==
    LET active_view == get_active_view_for_project(project)
        after == {v \in views : v.project_id = project.id
                                 /\ v.position > active_view.position}
        all == {v \in views : v.project_id = project.id}
    IN  IF active_view = NoView THEN NoView
        ELSE IF after # {}
        THEN CHOOSE v \in after : \A w \in after : v.position <= w.position
        ELSE IF all # {}
        THEN CHOOSE v \in all : \A w \in all : v.position >= w.position
        ELSE NoView

\* .. WHERE project_id = ? AND position > ? ORDER BY views.position ASC LIMIT 1,
\* and without such a row .. WHERE project_id = ? ORDER BY views.position ASC LIMIT 1.
\* Err("no active view") and Err("no next view") as NoView.
get_next_view_for_project(project) ==
    LET active_view == get_active_view_for_project(project)
        after == {v \in views : v.project_id = project.id
                                 /\ v.position > active_view.position}
        all == {v \in views : v.project_id = project.id}
    IN  IF active_view = NoView THEN NoView
        ELSE IF after # {}
        THEN CHOOSE v \in after : \A w \in after : v.position <= w.position
        ELSE IF all # {}
        THEN CHOOSE v \in all : \A w \in all : v.position <= w.position
        ELSE NoView

\* Mutant: ascending order in the first query.
get_prev_view_for_project_Asc(project) ==
    LET active_view == get_active_view_for_project(project)
        before == {v \in views : v.project_id = project.id
                                  /\ v.position < active_view.position}
        all == {v \in views : v.project_id = project.id}
    IN  IF active_view = NoView THEN NoView
        ELSE IF before # {}
        THEN CHOOSE v \in before : \A w \in before : v.position <= w.position
        ELSE IF all # {}
        THEN CHOOSE v \in all : \A w \in all : v.position >= w.position
        ELSE NoView

\* Mutant: without rows below, the first view in place of the last one.
get_prev_view_for_project_NoWrap(project) ==
    LET active_view == get_active_view_for_project(project)
        before == {v \in views : v.project_id = project.id
                                  /\ v.position < active_view.position}
        all == {v \in views : v.project_id = project.id}
    IN  IF active_view = NoView THEN NoView
        ELSE IF before # {}
        THEN CHOOSE v \in before : \A w \in before : v.position >= w.position
        ELSE IF all # {}
        THEN CHOOSE v \in all : \A w \in all : v.position <= w.position
        ELSE NoView

\* .. WHERE project_id = ? AND position < ? ORDER BY views.position DESC LIMIT 1,
\* and without such a row .. WHERE project_id = ? ORDER BY views.position DESC LIMIT 1.
get_prev_view_for_project(project) ==
    LET active_view == get_active_view_for_project(project)
        before == {v \in views : v.project_id = project.id
                                  /\ v.position < active_view.position}
        all == {v \in views : v.project_id = project.id}
    IN  IF active_view = NoView THEN NoView
        ELSE IF before # {}
        THEN CHOOSE v \in before : \A w \in before : v.position >= w.position
        ELSE IF all # {}
        THEN CHOOSE v \in all : \A w \in all : v.position >= w.position
        ELSE NoView

\* ------------------------------------------------------------- add_project
add_project(p, name) ==
    /\ pc[p] = "idle"
    /\ \/ \E r \in projects : r.name = name
       \/ /\ Cardinality(projects) < MaxProjects
          /\ Cardinality(views) + InFlight < MaxViews
    /\ LET i1 == InsertProject(projects, name, 0)
           project_id == i1.rowid
           i2 == InsertView(views, default_view_name, project_id, 0)
           view_id == i2.rowid
           u == UpdateActiveView(i1.rows, view_id, project_id)
       IN  IF LockedByOther(p)
           THEN /\ UNCHANGED <<projects, views, everActive>>
                /\ last' = Step("add_project", "Busy", 0, name, NoView, "", 0)
           ELSE IF ~(i1.ok /\ i2.ok /\ ForeignKeysHold(u, i2.rows))
           THEN /\ UNCHANGED <<projects, views, everActive>>
                /\ last' = Step("add_project", "Constraint", 0, name, NoView, "", 0)
           ELSE /\ projects' = u
                /\ views' = i2.rows
                /\ everActive' = everActive \cup {view_id}
                /\ last' = Step("add_project", "Ok", 0, name, NoView, "", project_id)
    /\ UNCHANGED <<focused, pins, pc, call>>

\* ------------------------------------------------------------- set_active_view_for_project
\* Mutant: without the check that the view is in the project.
SetActiveView_NoCheck(p, project_id, view) ==
    IF LockedByOther(p)
    THEN [result |-> "Busy", rows |-> projects]
    ELSE [result |-> "Ok", rows |-> UpdateActiveView(projects, view.id, project_id)]

\* Mutant: the UPDATE runs before the check that the view is in the project.
SetActiveView_WriteBeforeCheck(p, project_id, view) ==
    IF LockedByOther(p)
    THEN [result |-> "Busy", rows |-> projects]
    ELSE [result |-> IF view.project_id # project_id THEN "NotInProject" ELSE "Ok",
          rows |-> UpdateActiveView(projects, view.id, project_id)]

\* The body of set_active_view_for_project run by process p: its result and
\* the projects table after it.
SetActiveView(p, project_id, view) ==
    IF view.project_id # project_id
    THEN [result |-> "NotInProject", rows |-> projects]
    ELSE IF LockedByOther(p)
    THEN [result |-> "Busy", rows |-> projects]
    ELSE [result |-> "Ok", rows |-> UpdateActiveView(projects, view.id, project_id)]

set_active_view_for_project(p, project, view) ==
    /\ pc[p] = "idle"
    /\ LET r == SetActiveView(p, project.id, view)
       IN  /\ projects' = r.rows
           /\ everActive' = IF r.result = "Ok" /\ (\E x \in projects : x.id = project.id)
                            THEN everActive \cup {view.id} ELSE everActive
           /\ last' = Step("set_active_view_for_project", r.result,
                           project.id, <<>>, view, "", 0)
    /\ UNCHANGED <<focused, views, pins, pc, call>>

\* ------------------------------------------------------------- add_view_to_project
\* let tx = self.conn.transaction()?; SELECT MAX(position) ..
add_view_to_project_select(p, project, name) ==
    /\ pc[p] = "idle"
    /\ LET m == SelectMaxPosition(views, project.id)
       IN  IF m.null
           THEN \* row.get::<_, i64>(0) of NULL fails; the transaction is dropped
                /\ UNCHANGED <<pc, call>>
                /\ last' = Step("add_view_to_project", "InvalidColumnType",
                                project.id, name, NoView, "", 0)
           ELSE /\ Cardinality(views) + InFlight < MaxViews
                /\ pc' = [pc EXCEPT ![p] = "read"]
                /\ call' = [call EXCEPT ![p] =
                               [project_id |-> project.id, name |-> name,
                                max_position |-> m.value, view |-> NoView]]
                /\ last' = Step("add_view_to_project", "Pending", 0, <<>>, NoView, "", 0)
    /\ UNCHANGED <<focused, projects, views, pins, everActive>>

\* Mutant: the row goes to max + 2.
add_view_to_project_insert_Skip(p) ==
    /\ pc[p] = "read"
    /\ LET c == call[p]
           i == InsertView(views, c.name, c.project_id, c.max_position + 2)
       IN  IF ReservedByOther(p)
           THEN \* SQLITE_BUSY at once: this connection already holds a read lock
                /\ pc' = [pc EXCEPT ![p] = "idle"]
                /\ call' = [call EXCEPT ![p] = NoCall]
                /\ last' = Step("add_view_to_project", "Busy",
                                c.project_id, c.name, NoView, "", 0)
           ELSE IF ~i.ok
           THEN /\ pc' = [pc EXCEPT ![p] = "idle"]
                /\ call' = [call EXCEPT ![p] = NoCall]
                /\ last' = Step("add_view_to_project", "Constraint",
                                c.project_id, c.name, NoView, "", 0)
           ELSE /\ pc' = [pc EXCEPT ![p] = "inserted"]
                /\ call' = [call EXCEPT ![p].view =
                               CHOOSE v \in i.rows : v.id = i.rowid]
                /\ last' = Step("add_view_to_project", "Pending", 0, <<>>, NoView, "", 0)
    /\ UNCHANGED <<focused, projects, views, pins, everActive>>

\* INSERT INTO views .. VALUES (name, project.id, max_position + 1)
add_view_to_project_insert(p) ==
    /\ pc[p] = "read"
    /\ LET c == call[p]
           i == InsertView(views, c.name, c.project_id, c.max_position + 1)
       IN  IF ReservedByOther(p)
           THEN \* SQLITE_BUSY at once: this connection already holds a read lock
                /\ pc' = [pc EXCEPT ![p] = "idle"]
                /\ call' = [call EXCEPT ![p] = NoCall]
                /\ last' = Step("add_view_to_project", "Busy",
                                c.project_id, c.name, NoView, "", 0)
           ELSE IF ~i.ok
           THEN /\ pc' = [pc EXCEPT ![p] = "idle"]
                /\ call' = [call EXCEPT ![p] = NoCall]
                /\ last' = Step("add_view_to_project", "Constraint",
                                c.project_id, c.name, NoView, "", 0)
           ELSE /\ pc' = [pc EXCEPT ![p] = "inserted"]
                /\ call' = [call EXCEPT ![p].view =
                               CHOOSE v \in i.rows : v.id = i.rowid]
                /\ last' = Step("add_view_to_project", "Pending", 0, <<>>, NoView, "", 0)
    /\ UNCHANGED <<focused, projects, views, pins, everActive>>

\* tx.commit()?
add_view_to_project_commit(p) ==
    /\ pc[p] = "inserted"
    /\ LET c == call[p]
           rows == views \cup {c.view}
       IN  IF SharedByOther(p)
           THEN \* a reader does not go away within busy_timeout: rolled back
                /\ pc' = [pc EXCEPT ![p] = "idle"]
                /\ call' = [call EXCEPT ![p] = NoCall]
                /\ views' = views
                /\ last' = Step("add_view_to_project", "Busy",
                                c.project_id, c.name, NoView, "", 0)
           ELSE IF ~ForeignKeysHold(projects, rows)
           THEN /\ pc' = [pc EXCEPT ![p] = "idle"]
                /\ call' = [call EXCEPT ![p] = NoCall]
                /\ views' = views
                /\ last' = Step("add_view_to_project", "Constraint",
                                c.project_id, c.name, NoView, "", 0)
           ELSE /\ pc' = [pc EXCEPT ![p] = "committed"]
                /\ call' = call
                /\ views' = rows
                /\ last' = Step("add_view_to_project", "Pending", 0, <<>>, NoView, "", 0)
    /\ UNCHANGED <<focused, projects, pins, everActive>>

\* let view = self.get_view_by_id(view_id).unwrap();
\* let _ = self.set_active_view_for_project(project, &view); Ok(view)
add_view_to_project_set_active(p) ==
    /\ pc[p] = "committed"
    /\ LET c == call[p]
           view == get_view_by_id(c.view.id)
           r == SetActiveView(p, c.project_id, view)
       IN  /\ projects' = r.rows
           /\ everActive' = IF r.result = "Ok" THEN everActive \cup {view.id}
                            ELSE everActive
           /\ last' = Step("add_view_to_project", "Ok", c.project_id, c.name, view, "", 0)
    /\ pc' = [pc EXCEPT ![p] = "idle"]
    /\ call' = [call EXCEPT ![p] = NoCall]
    /\ UNCHANGED <<focused, views, pins>>

\* ------------------------------------------------------------- pins
\* Mutant: the INSERT without its ON CONFLICT clause and without UNIQUE(key).
UpsertPin_InsertOnly(tbl, key, view_id) ==
    tbl \cup {[id |-> NewRowid(tbl), key |-> key, view_id |-> view_id]}

\* INSERT INTO pins (key, view_id) VALUES (?1, ?2)
\*   ON CONFLICT(key) DO UPDATE SET view_id = ?2
UpsertPin(tbl, key, view_id) ==
    IF \E r \in tbl : r.key = key
    THEN {IF r.key = key THEN [r EXCEPT !.view_id = view_id] ELSE r : r \in tbl}
    ELSE tbl \cup {[id |-> NewRowid(tbl), key |-> key, view_id |-> view_id]}

\* Mutant: DELETE FROM pins.
DeletePin_All(tbl, key) == {}

\* DELETE FROM pins WHERE key = ?1
DeletePin(tbl, key) == {r \in tbl : r.key # key}

\* The rowid upsert_pin returns (last_insert_rowid of the connection) is not
\* recorded: no other method reads it.
upsert_pin(p, key, view) ==
    /\ pc[p] = "idle"
    /\ (\E r \in pins : r.key = key) \/ NewRowid(pins) <= MaxPinId
    /\ IF LockedByOther(p)
       THEN /\ pins' = pins
            /\ last' = Step("upsert_pin", "Busy", 0, <<>>, view, key, 0)
       ELSE IF ~(\E v \in views : v.id = view.id)
       THEN \* FOREIGN KEY(view_id) REFERENCES views(id), immediate
            /\ pins' = pins
            /\ last' = Step("upsert_pin", "Constraint", 0, <<>>, view, key, 0)
       ELSE /\ pins' = UpsertPin(pins, key, view.id)
            /\ last' = Step("upsert_pin", "Ok", 0, <<>>, view, key, 0)
    /\ UNCHANGED <<focused, projects, views, pc, call, everActive>>

clear_pin(p, key) ==
    /\ pc[p] = "idle"
    /\ IF LockedByOther(p)
       THEN /\ pins' = pins
            /\ last' = Step("clear_pin", "Busy", 0, <<>>, NoView, key, 0)
       ELSE /\ pins' = DeletePin(pins, key)
            /\ last' = Step("clear_pin", "Ok", 0, <<>>, NoView, key, 0)
    /\ UNCHANGED <<focused, projects, views, pc, call, everActive>>

\* SELECT views.* FROM views JOIN pins ON views.id = pins.view_id
\* WHERE pins.key = ?1; None as NoView.
get_view_for_pin_key(key) ==
    IF \E r \in pins, v \in views : r.key = key /\ v.id = r.view_id
    THEN CHOOSE v \in views : \E r \in pins : r.key = key /\ v.id = r.view_id
    ELSE NoView

\* A caller asks for the view pinned under a key; read only.
pin_view(key) ==
    /\ \A p \in Procs : pc[p] = "idle"
    /\ LET view == get_view_for_pin_key(key)
       IN  last' = Step("get_view_for_pin_key",
                        IF view = NoView THEN "None" ELSE "Some",
                        0, <<>>, view, key, 0)
    /\ UNCHANGED <<focused, projects, views, pins, pc, call, everActive>>

\* ------------------------------------------------------------- list_projects
\* Mutant: ORDER BY id DESC.
list_projects_Desc ==
    CHOOSE seq \in [1..Cardinality(projects) -> projects] :
        /\ \A r \in projects : \E i \in DOMAIN seq : seq[i] = r
        /\ \A i, j \in DOMAIN seq : i < j => seq[i].id > seq[j].id

\* SELECT id, name, active_view_id FROM projects ORDER BY id
list_projects ==
    CHOOSE seq \in [1..Cardinality(projects) -> projects] :
        /\ \A r \in projects : \E i \in DOMAIN seq : seq[i] = r
        /\ \A i, j \in DOMAIN seq : i < j => seq[i].id < seq[j].id

\* A caller lists the projects; read only. The step keeps the length.
projects_listed ==
    /\ \A p \in Procs : pc[p] = "idle"
    /\ last' = Step("list_projects", "Ok", 0, <<>>, NoView, "", Len(list_projects))
    /\ UNCHANGED <<focused, projects, views, pins, pc, call, everActive>>

\* ------------------------------------------------------------- navigation
\* A caller asks for the next view of a project it holds; read only.
next_view(project) ==
    /\ \A p \in Procs : pc[p] = "idle"
    /\ LET next == get_next_view_for_project(project)
       IN  last' = Step("get_next_view_for_project",
                        IF next = NoView THEN "Err" ELSE "Ok",
                        project.id, <<>>, next, "", project.active_view_id)
    /\ UNCHANGED <<focused, projects, views, pins, pc, call, everActive>>

\* A caller asks for the previous view of a project it holds; read only.
prev_view(project) ==
    /\ \A p \in Procs : pc[p] = "idle"
    /\ LET prev == get_prev_view_for_project(project)
       IN  last' = Step("get_prev_view_for_project",
                        IF prev = NoView THEN "Err" ELSE "Ok",
                        project.id, <<>>, prev, "", project.active_view_id)
    /\ UNCHANGED <<focused, projects, views, pins, pc, call, everActive>>

\* A caller decodes a workspace name to a project; read only.
decode_project(name) ==
    /\ \A p \in Procs : pc[p] = "idle"
    /\ LET project == get_project_from_window_manager_display_name(name)
       IN  last' = Step("get_project_from_window_manager_display_name",
                        IF project = NoProject THEN "None" ELSE "Some",
                        project.id, name, NoView, "", 0)
    /\ UNCHANGED <<focused, projects, views, pins, pc, call, everActive>>

\* A caller decodes a workspace name to a view; read only.
decode_view(name) ==
    /\ \A p \in Procs : pc[p] = "idle"
    /\ LET rows == get_view_from_window_manager_display_name(name)
       IN  \E view \in (IF rows = {} THEN {NoView} ELSE rows) :
               last' = Step("get_view_from_window_manager_display_name",
                            IF view = NoView THEN "None" ELSE "Some",
                            view.project_id, name, view, "", 0)
    /\ UNCHANGED <<focused, projects, views, pins, pc, call, everActive>>

\* ------------------------------------------------------------- commands
\* The user, or a Focus command, makes the host focus a workspace.
focus(workspace) ==
    /\ focused' = workspace
    /\ last' = Step("focus", "Ok", 0, workspace, NoView, "", 0)
    /\ UNCHANGED <<projects, views, pins, pc, call, everActive>>

\* Mutant: the next view is taken from the focused view, not from the stored
\* active view.
activate_next_view_FromFocused(p) ==
    /\ pc[p] = "idle"
    /\ LET proj == get_project_from_window_manager_display_name(focused)
           shown == get_view_from_window_manager_display_name(focused)
           from == IF shown = {} THEN proj
                   ELSE [proj EXCEPT !.active_view_id = (CHOOSE v \in shown : TRUE).id]
           next == get_next_view_for_project(from)
           r == SetActiveView(p, proj.id, next)
       IN  IF proj = NoProject \/ next = NoView \/ r.result # "Ok"
           THEN /\ last' = Step("ActivateNextView", "Panic", proj.id, focused,
                                next, "", proj.active_view_id)
                /\ UNCHANGED <<projects, everActive, focused>>
           ELSE /\ projects' = r.rows
                /\ everActive' = everActive \cup {next.id}
                /\ focused' = get_window_manager_display_name(next)
                /\ last' = Step("ActivateNextView", "Ok", proj.id, focused,
                                next, "", proj.active_view_id)
    /\ UNCHANGED <<views, pins, pc, call>>

\* ProjectCommands::ActivateNextView run by process p; each unwrap() that
\* meets None or Err ends the process before anything later in the command.
\* The step keeps the name that was focused and the active view id loaded.
activate_next_view(p) ==
    /\ pc[p] = "idle"
    /\ LET proj == get_project_from_window_manager_display_name(focused)
           next == get_next_view_for_project(proj)
           r == SetActiveView(p, proj.id, next)
       IN  IF proj = NoProject \/ next = NoView \/ r.result # "Ok"
           THEN /\ last' = Step("ActivateNextView", "Panic", proj.id, focused,
                                next, "", proj.active_view_id)
                /\ UNCHANGED <<projects, everActive, focused>>
           ELSE /\ projects' = r.rows
                /\ everActive' = everActive \cup {next.id}
                /\ focused' = get_window_manager_display_name(next)
                /\ last' = Step("ActivateNextView", "Ok", proj.id, focused,
                                next, "", proj.active_view_id)
    /\ UNCHANGED <<views, pins, pc, call>>

\* ProjectCommands::ActivatePrevView run by process p.
activate_prev_view(p) ==
    /\ pc[p] = "idle"
    /\ LET proj == get_project_from_window_manager_display_name(focused)
           prev == get_prev_view_for_project(proj)
           r == SetActiveView(p, proj.id, prev)
       IN  IF proj = NoProject \/ prev = NoView \/ r.result # "Ok"
           THEN /\ last' = Step("ActivatePrevView", "Panic", proj.id, focused,
                                prev, "", proj.active_view_id)
                /\ UNCHANGED <<projects, everActive, focused>>
           ELSE /\ projects' = r.rows
                /\ everActive' = everActive \cup {prev.id}
                /\ focused' = get_window_manager_display_name(prev)
                /\ last' = Step("ActivatePrevView", "Ok", proj.id, focused,
                                prev, "", proj.active_view_id)
    /\ UNCHANGED <<views, pins, pc, call>>

Init ==
    /\ projects = {}
    /\ views = {}
    /\ pins = {}
    /\ pc = [p \in Procs |-> "idle"]
    /\ call = [p \in Procs |-> NoCall]
    /\ everActive = {}
    /\ focused = <<"1">>
    /\ last = Step("new", "Ok", 0, <<>>, NoView, "", 0)

Next ==
    \/ \E p \in Procs, name \in Names : add_project(p, name)
    \/ \E p \in Procs, project \in ProjectHandles, view \in ViewHandles :
          set_active_view_for_project(p, project, view)
    \/ \E p \in Procs, project \in ProjectHandles, name \in Names :
          add_view_to_project_select(p, project, name)
    \/ \E p \in Procs : add_view_to_project_insert(p)
    \/ \E p \in Procs : add_view_to_project_commit(p)
    \/ \E p \in Procs : add_view_to_project_set_active(p)
    \/ \E p \in Procs, key \in Keys, view \in ViewHandles : upsert_pin(p, key, view)
    \/ \E p \in Procs, key \in Keys : clear_pin(p, key)
    \/ \E project \in ProjectHandles : next_view(project)
    \/ projects_listed

Spec == Init /\ [][Next]_vars

\* The pins with two keys, over one project that grows.
NextPins ==
    \/ \E p \in Procs : add_project(p, <<"b">>)
    \/ \E p \in Procs, project \in ProjectHandles :
          add_view_to_project_select(p, project, <<"b">>)
    \/ \E p \in Procs : add_view_to_project_insert(p)
    \/ \E p \in Procs : add_view_to_project_commit(p)
    \/ \E p \in Procs : add_view_to_project_set_active(p)
    \/ \E p \in Procs, key \in PinKeys, view \in ViewHandles :
          upsert_pin(p, key, view)
    \/ \E p \in Procs, key \in PinKeys : clear_pin(p, key)
    \/ \E key \in PinKeys : pin_view(key)

SpecPins == Init /\ [][NextPins]_vars

\* The commands that read or move the focus and the decoding of workspace
\* names, with the view additions that move the active view behind the focus.
NextFocus ==
    \/ \E p \in Procs, name \in Names : add_project(p, name)
    \/ \E p \in Procs, project \in ProjectHandles, name \in Names :
          add_view_to_project_select(p, project, name)
    \/ \E p \in Procs : add_view_to_project_insert(p)
    \/ \E p \in Procs : add_view_to_project_commit(p)
    \/ \E p \in Procs : add_view_to_project_set_active(p)
    \/ \E workspace \in DisplayNames : focus(workspace)
    \/ \E p \in Procs : activate_next_view(p)
    \/ \E p \in Procs : activate_prev_view(p)
    \/ \E name \in DisplayNames : decode_project(name)
    \/ \E name \in DisplayNames : decode_view(name)
    \/ \E project \in ProjectHandles : prev_view(project)

SpecFocus == Init /\ [][NextFocus]_vars

\* ------------------------------------------------------------- helpers of the properties
ViewsOf(project_id) == {v \in views : v.project_id = project_id}

IsAddProject(step) == step.op = "add_project"
IsAddView(step) == step.op = "add_view_to_project" /\ step.result # "Pending"
IsSetActive(step) == step.op = "set_active_view_for_project"

\* ------------------------------------------------------------- C1
\* C1: in every reachable state every stored project has at least one view,
\* and its active_view_id is the id of a stored view of that same project.
C1_ActiveViewInvariant ==
    \A r \in projects :
        /\ \E v \in views : v.project_id = r.id
        /\ \E v \in views : v.id = r.active_view_id /\ v.project_id = r.id

\* Two projects are stored, one of them with a second view that is its active
\* view, and the call that just ended failed.
C1_Witness ==
    /\ Cardinality(projects) = 2
    /\ \E r \in projects : \E v \in views :
          v.id = r.active_view_id /\ v.project_id = r.id /\ v.position = 1
    /\ IsSetActive(last) /\ last.result = "NotInProject"
    /\ \E r \in projects : r.id = last.project_id

\* ------------------------------------------------------------- C2
\* C2: a successful add_project(name), for a name not yet used, adds exactly
\* one project row named name and exactly one view row named "view" at
\* position 0 owned by it, makes that view the project's active view and
\* returns the project's id; the active view of the project loaded by that id
\* is that view, and its display name is "<name>#view".
C2_AddProjectCreates ==
    [][(IsAddProject(last') /\ last'.result = "Ok") =>
          /\ \A r \in projects : r.name # last'.name
          /\ \E prow \in projects' \ projects : \E vrow \in views' \ views :
             \E id \in {prow.id} : \E name \in {prow.name} :
                /\ projects' = projects \cup {prow}
                /\ views' = views \cup {vrow}
                /\ prow.id = last'.id
                /\ prow.name = last'.name
                /\ prow.active_view_id = vrow.id
                /\ vrow.name = <<"v", "i", "e", "w">>
                /\ vrow.position = 0
                /\ vrow.project_id = prow.id
                /\ get_active_view_for_project(get_project_by_id(id))' = vrow
                /\ get_window_manager_display_name(vrow)'
                       = name \o <<"#", "v", "i", "e", "w">>
          /\ pins' = pins]_vars

\* A second project has just been added.
C2_Witness ==
    /\ IsAddProject(last) /\ last.result = "Ok"
    /\ Cardinality(projects) = 2
    /\ \E r \in projects : r.id = last.id /\ r.name = last.name

\* ------------------------------------------------------------- C3
\* C3: add_project with a name that a stored project already has is rejected
\* with an error, and the rejected call leaves the project, view and pin rows
\* as they were.
C3_DuplicateRejected ==
    [][(IsAddProject(last') /\ (\E r \in projects : r.name = last'.name)) =>
          /\ last'.result # "Ok"
          /\ projects' = projects
          /\ views' = views
          /\ pins' = pins]_vars

\* A duplicate name has just been rejected by the UNIQUE constraint.
C3_Witness ==
    /\ IsAddProject(last) /\ last.result = "Constraint"
    /\ \E r \in projects : r.name = last.name
\* ------------------------------------------------------------- C4
\* C4: add_view_to_project is all-or-nothing.  Whenever a call ends, either it
\* reports success, the new view row is stored and it is the project's active
\* view, or it reports an error, no row was added and the active view is as
\* it was.
C4_AllOrNothing ==
    [][IsAddView(last') =>
          IF last'.result = "Ok"
          THEN /\ last'.view \in views'
               /\ \E r \in projects' :
                     r.id = last'.project_id /\ r.active_view_id = last'.view.id
          ELSE /\ projects' = projects
               /\ views' = views
               /\ \A p \in Procs : pc[p] = "committed" => pc'[p] = "committed"]_vars

\* ------------------------------------------------------------- C5
\* C5: after a successful add_view_to_project the active view of the project,
\* loaded again, is the view that was added.
C5_NewViewIsActive ==
    (IsAddView(last) /\ last.result = "Ok") =>
        get_active_view_for_project(get_project_by_id(last.project_id)) = last.view

\* ------------------------------------------------------------- C6
\* C6: the row add_view_to_project commits belongs to the given project and
\* has the position after the largest position of that project's views; the
\* view it returns is that row; on a project that is not stored the call fails
\* and adds no row.
C6_AppendsAtMaxPlusOne ==
    [][/\ \A p \in Procs :
             (pc[p] = "inserted" /\ pc'[p] = "committed") =>
                 \E row \in views' \ views :
                    /\ views' = views \cup {row}
                    /\ row.project_id = call[p].project_id
                    /\ row.name = call[p].name
                    /\ \E w \in views : w.project_id = row.project_id
                                        /\ w.position + 1 = row.position
                    /\ \A w \in views : w.project_id = row.project_id
                                        => w.position < row.position
                    /\ call'[p].view = row
       /\ \A p \in Procs :
             (pc[p] = "committed" /\ pc'[p] = "idle") =>
                 /\ IsAddView(last') /\ last'.result = "Ok"
                 /\ last'.view = call[p].view
                 /\ last'.project_id = last'.view.project_id
       /\ (IsAddView(last') /\ last'.result = "Ok") =>
             \E p \in Procs : pc[p] = "committed" /\ pc'[p] = "idle"
       /\ \A p \in Procs :
             pc'[p] # "idle" => \E r \in projects' : r.id = call'[p].project_id
       /\ (IsAddView(last') /\ ~(\E r \in projects : r.id = last'.project_id)) =>
             /\ last'.result # "Ok"
             /\ projects' = projects
             /\ views' = views]_vars

\* A third view of a project has just been added, at position 2.
C6_Witness ==
    /\ IsAddView(last) /\ last.result = "Ok"
    /\ last.view \in views
    /\ last.view.position = 2
    /\ Cardinality(ViewsOf(last.project_id)) = 3

\* ------------------------------------------------------------- C7
\* C7: no two view rows share (project_id, position), and in every project
\* the view with the smallest position is the default view, at position 0.
C7_PositionsUnique ==
    /\ \A v \in views : \A w \in views :
          (v.project_id = w.project_id /\ v.position = w.position) => v = w
    /\ \A r \in projects :
          \E v \in ViewsOf(r.id) :
             /\ \A w \in ViewsOf(r.id) : v.position <= w.position
             /\ v.position = 0
             /\ v.name = <<"v", "i", "e", "w">>

\* A project with three views.
C7_Witness ==
    \E r \in projects :
        /\ Cardinality(ViewsOf(r.id)) = 3
        /\ \E v \in ViewsOf(r.id) : v.position = 2

\* ------------------------------------------------------------- C8
\* C8: interleaved add_view_to_project calls on one project end as one of
\* their serial orders does.  When a call returns the view it added and no
\* call is under way, the views of the project have distinct positions and the
\* project's active view is the one with the highest position.
C8_SerialOutcome ==
    (IsAddView(last) /\ last.result = "Ok" /\ (\A p \in Procs : pc[p] = "idle")) =>
        /\ \A v \in ViewsOf(last.project_id) : \A w \in ViewsOf(last.project_id) :
              v.position = w.position => v = w
        /\ \E r \in projects : \E v \in ViewsOf(r.id) :
              /\ r.id = last.project_id
              /\ v.id = r.active_view_id
              /\ \A w \in ViewsOf(r.id) : w.position <= v.position

\* ------------------------------------------------------------- C9
\* C9: set_active_view_for_project with a view of another project fails and
\* writes nothing; a call that fails writes nothing; a call that succeeds was
\* given a view of the project, sets that project's active_view_id to the
\* view's id and changes nothing else.
C9_SetActiveChecked ==
    [][IsSetActive(last') =>
          /\ last'.view.project_id # last'.project_id => last'.result = "NotInProject"
          /\ last'.result # "Ok" =>
                projects' = projects /\ views' = views /\ pins' = pins
          /\ last'.result = "Ok" =>
                /\ last'.view.project_id = last'.project_id
                /\ views' = views
                /\ pins' = pins
                /\ Cardinality(projects') = Cardinality(projects)
                /\ \A r \in projects :
                      \E n \in projects' :
                         /\ n.id = r.id
                         /\ n.name = r.name
                         /\ n.active_view_id =
                               IF r.id = last'.project_id THEN last'.view.id
                               ELSE r.active_view_id]_vars

\* A view of one stored project has just been refused for another one.
C9_Witness ==
    /\ IsSetActive(last) /\ last.result = "NotInProject"
    /\ \E r \in projects : r.id = last.project_id
    /\ last.view \in views

\* ------------------------------------------------------------- C10
\* C10: for a project whose active view is at position p,
\* get_next_view_for_project returns the view of that project with the
\* smallest position above p, and without one the view of that project with
\* the smallest position; with positions 0, 1, 2 it goes from 2 to 0 and from
\* 0 to 1; what it returns is a view of the given project.
C10_NextView ==
    \A project \in ProjectHandles :
        LET active == get_active_view_for_project(project)
            next == get_next_view_for_project(project)
            mine == ViewsOf(project.id)
            above == {v \in mine : v.position > active.position}
        IN  /\ next # NoView => next \in mine
            /\ (active # NoView /\ mine # {}) =>
                  /\ next \in mine
                  /\ above # {} =>
                        /\ next \in above
                        /\ \A v \in above : next.position <= v.position
                  /\ above = {} => \A v \in mine : next.position <= v.position
                  /\ ({v.position : v \in mine} = {0, 1, 2} /\ active.position = 2)
                        => next.position = 0
                  /\ ({v.position : v \in mine} = {0, 1, 2} /\ active.position = 0)
                        => next.position = 1

\* The next view has just been asked for from the last of three views.
C10_Witness ==
    /\ last.op = "get_next_view_for_project" /\ last.result = "Ok"
    /\ {v.position : v \in ViewsOf(last.project_id)} = {0, 1, 2}
    /\ get_view_by_id(last.id).position = 2
    /\ last.view.position = 0

\* ------------------------------------------------------------- C11
\* C11: for a project whose active view is at position p,
\* get_prev_view_for_project returns the view of that project with the largest
\* position below p, and without one the view of that project with the largest
\* position; what it returns is a view of the given project.
C11_PrevView ==
    \A project \in ProjectHandles :
        LET active == get_active_view_for_project(project)
            prev == get_prev_view_for_project(project)
            mine == ViewsOf(project.id)
            below == {v \in mine : v.position < active.position}
        IN  /\ prev # NoView => prev \in mine
            /\ (active # NoView /\ mine # {}) =>
                  /\ prev \in mine
                  /\ below # {} =>
                        /\ prev \in below
                        /\ \A v \in below : v.position <= prev.position
                  /\ below = {} => \A v \in mine : v.position <= prev.position

\* The previous view has just been asked for from the first of three views.
C11_Witness ==
    /\ last.op = "get_prev_view_for_project" /\ last.result = "Ok"
    /\ {v.position : v \in ViewsOf(last.project_id)} = {0, 1, 2}
    /\ get_view_by_id(last.id).position = 0
    /\ last.view.position = 2

\* ------------------------------------------------------------- C12
NavSteps == 4

\* The project as the next command loads it after
\* set_active_view_for_project(project, view) has run: the UPDATE is guarded
\* by the membership check, and a view that is not found changes nothing.
Reloaded(project, view) ==
    IF view = NoView \/ view.project_id # project.id THEN project
    ELSE [project EXCEPT !.active_view_id = view.id]

RECURSIVE ActivateNextTimes(_, _)
ActivateNextTimes(project, n) ==
    IF n = 0 THEN project
    ELSE ActivateNextTimes(
             Reloaded(project, get_next_view_for_project(project)), n - 1)

RECURSIVE ActivatePrevTimes(_, _)
ActivatePrevTimes(project, n) ==
    IF n = 0 THEN project
    ELSE ActivatePrevTimes(
             Reloaded(project, get_prev_view_for_project(project)), n - 1)

\* C12: for every project, every view of it as the starting active view and
\* every n, n times (get_next_view_for_project, then set_active_view_for_project
\* with the result) followed by n times (get_prev_view_for_project, then
\* set_active_view_for_project with the result), the project loaded anew before
\* each step, leaves the starting view active.
C12_PrevUndoesNext ==
    \A r \in projects : \A v \in ViewsOf(r.id) : \A n \in 0..NavSteps :
        LET start == [r EXCEPT !.active_view_id = v.id]
        IN  ActivatePrevTimes(ActivateNextTimes(start, n), n) = start

\* ActivatePrevView has just committed the active view of a project with
\* three views: one step forward leaves it, NavSteps steps wrap past the last
\* position, and as many steps back return.
C12_Witness ==
    /\ last.op = "ActivatePrevView" /\ last.result = "Ok"
    /\ \E r \in projects :
          /\ r.id = last.project_id
          /\ r.active_view_id = last.view.id
          /\ Cardinality(ViewsOf(r.id)) = 3
          /\ ActivateNextTimes(r, 1) # r
          /\ \E n \in 2..NavSteps : ActivateNextTimes(r, n) = r
          /\ ActivatePrevTimes(ActivateNextTimes(r, NavSteps), NavSteps) = r

\* ------------------------------------------------------------- C13
HasSeparator(name) == \E i \in 1..Len(name) : name[i] = Separator

SeparatorCount(name) == Cardinality({i \in 1..Len(name) : name[i] = Separator})

\* C13: for every stored project P and view V of P whose names hold no '#',
\* decoding the display name of V gives back exactly V, and P as the project.
C13_RoundTrip ==
    \A r \in projects : \A v \in ViewsOf(r.id) :
        (~HasSeparator(r.name) /\ ~HasSeparator(v.name)) =>
            LET name == get_window_manager_display_name(v)
            IN  /\ get_project_from_window_manager_display_name(name) = r
                /\ get_view_from_window_manager_display_name(name) = {v}

\* ------------------------------------------------------------- C14
IsDecode(step) ==
    step.op \in {"get_project_from_window_manager_display_name",
                 "get_view_from_window_manager_display_name"}

MalformedDecodesToNothing ==
    /\ \A name \in DisplayNames :
          SeparatorCount(name) # 1 =>
              /\ get_project_from_window_manager_display_name(name) = NoProject
              /\ get_view_from_window_manager_display_name(name) = {}
    /\ (IsDecode(last) /\ SeparatorCount(last.name) # 1)
           => (last.result = "None" /\ last.view = NoView /\ last.project_id = 0)

\* C14: a display name with no '#' or with more than one '#' decodes to no
\* project and to no view, whatever the store holds, and decoding it leaves
\* the store as it was.
C14_MalformedFails ==
    /\ []MalformedDecodesToNothing
    /\ [][(IsDecode(last') /\ SeparatorCount(last'.name) # 1)
              => store' = store]_vars

\* A name with two '#' whose first piece names a stored project has just been
\* decoded, to nothing.
C14_Witness ==
    /\ last.op = "get_project_from_window_manager_display_name"
    /\ last.result = "None"
    /\ SeparatorCount(last.name) = 2
    /\ get_project_by_name(Split(last.name)[1]) # NoProject

\* ------------------------------------------------------------- C15
\* C15: a display name "p#v" with exactly one '#' decodes to nothing, from
\* both decode operations, whenever no project is named p or the project
\* named p has no view named v.
C15_LookupMissFails ==
    \A name \in DisplayNames :
        SeparatorCount(name) = 1 =>
            LET parts == Split(name)
                project == get_project_by_name(parts[1])
            IN  (\/ project = NoProject
                 \/ ~\E v \in ViewsOf(project.id) : v.name = parts[2])
                => /\ get_project_from_window_manager_display_name(name)
                          = NoProject
                   /\ get_view_from_window_manager_display_name(name) = {}

\* ------------------------------------------------------------- C16
\* C16: add_project and add_view_to_project reject a name that holds '#', so
\* no stored project name and no stored view name holds '#'.
C16_NoSeparatorStored ==
    /\ \A r \in projects : ~HasSeparator(r.name)
    /\ \A v \in views : ~HasSeparator(v.name)
    /\ ((IsAddProject(last) \/ IsAddView(last)) /\ HasSeparator(last.name))
           => last.result \notin {"Ok", "Pending"}

\* ------------------------------------------------------------- C17
PinsOf(tbl, key) == {r \in tbl : r.key = key}

\* C17: there is at most one pin per key. upsert_pin(k, v) leaves exactly one
\* pin under k, on v, whether or not k was pinned before, so of two calls for
\* one key the later target stays; get_view_for_pin_key(k) then gives v; the
\* pins under other keys are as they were.
C17_UpsertPin ==
    /\ [](\A key \in PinKeys : Cardinality(PinsOf(pins, key)) <= 1)
    /\ [][(last'.op = "upsert_pin" /\ last'.result = "Ok") =>
             \E key \in {last'.key} : \E view \in {last'.view} :
                 /\ Cardinality(PinsOf(pins', key)) = 1
                 /\ \A r \in PinsOf(pins', key) : r.view_id = view.id
                 /\ get_view_for_pin_key(key)' = view
                 /\ \A other \in PinKeys \ {key} :
                        PinsOf(pins', other) = PinsOf(pins, other)]_vars

\* upsert_pin has just moved the pin of a key that was pinned before the other
\* key was (its row is the older one), to the view the call names.
C17_Witness ==
    /\ last.op = "upsert_pin" /\ last.result = "Ok"
    /\ \E r \in pins, o \in pins :
          /\ r.key = last.key /\ o.key # last.key
          /\ r.id < o.id
          /\ r.view_id = last.view.id
          /\ r.view_id # o.view_id

\* ------------------------------------------------------------- C18
\* What a clear_pin that returned Ok has done: no pin is left under the key,
\* get_view_for_pin_key finds nothing, the other pins are as they were.
Cleared(key) ==
    /\ PinsOf(pins', key) = {}
    /\ get_view_for_pin_key(key)' = NoView
    /\ \A other \in PinKeys \ {key} : PinsOf(pins', other) = PinsOf(pins, other)

\* C18 as stated: every clear_pin(k) succeeds, removing the pin under k when
\* there is one and changing nothing when there is none; other pins, the views
\* and the projects are as they were.
C18_ClearAlwaysSucceeds ==
    [][last'.op = "clear_pin" =>
          /\ last'.result = "Ok"
          /\ \E key \in {last'.key} : Cleared(key)
          /\ <<projects, views>>' = <<projects, views>>]_vars

\* C18, amended: clear_pin(k) fails only when the store is locked by another
\* connection, and then changes nothing; otherwise it succeeds whether or not
\* a pin is under k, removing it when there is one and changing nothing when
\* there is none; other pins, the views and the projects are as they were.
C18_ClearPin ==
    [][last'.op = "clear_pin" =>
          /\ last'.result \in {"Ok", "Busy"}
          /\ last'.result = "Busy" <=>
                 \E q \in Procs : HoldsShared(q) \/ HoldsReserved(q)
          /\ last'.result = "Busy" => pins' = pins
          /\ last'.result = "Ok" => \E key \in {last'.key} : Cleared(key)
          /\ (last'.result = "Ok" /\ PinsOf(pins, last'.key) = {})
                 => pins' = pins
          /\ <<projects, views>>' = <<projects, views>>]_vars

\* clear_pin has just succeeded on a key without a pin while the other key
\* keeps its pin.
C18_Witness ==
    /\ last.op = "clear_pin" /\ last.result = "Ok"
    /\ \E o \in pins : o.key # last.key /\ o.id = 2
    /\ PinsOf(pins, last.key) = {}

\* ------------------------------------------------------------- C19
Ids(seq) == [i \in DOMAIN seq |-> seq[i].id]

ListedOnceAscending ==
    /\ \A r \in projects :
          Cardinality({i \in DOMAIN list_projects : list_projects[i] = r}) = 1
    /\ \A i \in DOMAIN list_projects : list_projects[i] \in projects
    /\ \A i, j \in DOMAIN list_projects :
          i < j => list_projects[i].id < list_projects[j].id

\* C19: list_projects gives every stored project exactly once, by ascending
\* id, and that is the order of creation: an add_project that succeeds puts
\* its project at the end of the list, behind all that were there, and no
\* other call, a rejected add_project included, changes which projects are
\* listed or their order.
C19_ListInCreationOrder ==
    /\ []ListedOnceAscending
    /\ [][IF IsAddProject(last') /\ last'.result = "Ok"
          THEN Ids(list_projects') = Append(Ids(list_projects), last'.id)
          ELSE Ids(list_projects') = Ids(list_projects)]_vars

\* The projects have just been listed, and there are at least two of them.
C19_Witness ==
    /\ last.op = "list_projects"
    /\ last.id >= 2
    /\ Len(list_projects) = last.id
    /\ list_projects[1].id = 1 /\ list_projects[2].id = 2

\* ------------------------------------------------------------- C20
\* C20: when the focused workspace name decodes to a project P and the store
\* takes the write, ActivateNextView makes the view that
\* get_next_view_for_project gives for P's stored active view (not for the
\* focused view) the stored active view of P, and then focuses its display
\* name: afterwards the focused name is the display name of P's active view.
\* A command that stops early changes neither the store nor the focus.
C20_ActivateNextView ==
    [][last'.op = "ActivateNextView" =>
          LET P == get_project_from_window_manager_display_name(focused)
              next == get_next_view_for_project(get_project_by_id(P.id))
          IN  /\ last'.result = "Ok" <=>
                     (P # NoProject /\ ~\E q \in Procs : HoldsShared(q) \/ HoldsReserved(q))
              /\ last'.result = "Ok" =>
                     \E id \in {P.id} : \E n \in {next} :
                         /\ n \in ViewsOf(id)
                         /\ get_active_view_for_project(get_project_by_id(id))' = n
                         /\ focused' = get_window_manager_display_name(n)
                         /\ focused' = get_window_manager_display_name(
                                get_active_view_for_project(get_project_by_id(id)))'
              /\ last'.result # "Ok" => <<store, focused>>' = <<store, focused>>]_vars

\* The command has just run while the focused workspace was a view of P other
\* than P's stored active view, and the view it made active and focused is not
\* the one after the focused view.
C20_Witness ==
    /\ last.op = "ActivateNextView" /\ last.result = "Ok"
    /\ \E w \in ViewsOf(last.project_id) :
          /\ get_view_from_window_manager_display_name(last.name) = {w}
          /\ w.id # last.id
          /\ last.view # get_next_view_for_project(
                 [get_project_by_id(last.project_id) EXCEPT !.active_view_id = w.id])
    /\ focused = get_window_manager_display_name(last.view)

\* ------------------------------------------------------------- C21
\* C21: in every reachable state the positions of the views of each project
\* are exactly 0..n-1, n the number of its views, each position once; every
\* view belongs to a stored project; calls of add_project and
\* add_view_to_project that fail or are rolled back leave no gap and no
\* duplicate.
C21_PositionsContiguous ==
    /\ \A r \in projects :
          LET n == Cardinality(ViewsOf(r.id))
          IN  /\ n >= 1
              /\ {v.position : v \in ViewsOf(r.id)} = 0..(n - 1)
    /\ \A v \in views : \E r \in projects : r.id = v.project_id

\* Two add_view_to_project calls read the same maximum of one project: one
\* has its row inserted and not yet committed, the other has just failed.
C21_Witness ==
    /\ IsAddView(last) /\ last.result = "Busy"
    /\ \E q \in Procs :
          /\ pc[q] = "inserted"
          /\ call[q].project_id = last.project_id
          /\ call[q].view.position = call[q].max_position + 1
          /\ call[q].max_position = Max({v.position : v \in ViewsOf(last.project_id)})

\* ------------------------------------------------------------- C22
\* C22: for a project with n views and any of them as the starting active
\* view, n times (get_next_view_for_project on the project loaded anew, then
\* set_active_view_for_project with the result) makes every view of the
\* project active exactly once and ends on the starting view; with one view,
\* get_next_view_for_project and get_prev_view_for_project both return it.
C22_FullCycle ==
    \A r \in projects : \A v \in ViewsOf(r.id) :
        LET n == Cardinality(ViewsOf(r.id))
            start == [r EXCEPT !.active_view_id = v.id]
        IN  /\ {ActivateNextTimes(start, k).active_view_id : k \in 1..n}
                   = {w.id : w \in ViewsOf(r.id)}
            /\ ActivateNextTimes(start, n) = start
            /\ \A k \in 1..(n - 1) : ActivateNextTimes(start, k) # start
            /\ n = 1 => /\ get_next_view_for_project(start) = v
                        /\ get_prev_view_for_project(start) = v

\* ActivateNextView has just wrapped from the last of three views to the
\* first; three steps from here come back to it.
C22_Witness ==
    /\ last.op = "ActivateNextView" /\ last.result = "Ok"
    /\ Cardinality(ViewsOf(last.project_id)) = 3
    /\ get_view_by_id(last.id).position = 2
    /\ last.view.position = 0
    /\ get_project_by_id(last.project_id).active_view_id = last.view.id

\* ------------------------------------------------------------- C23
\* The view that a step has added to the project of handle h, if any.
AddedTo(h) == {v \in views' \ views : v.project_id = h.id}

\* C23 as stated: whatever step is taken, set_active_view_for_project and
\* add_view_to_project by any process included, a Project value loaded earlier
\* keeps giving the same results from get_active_view_for_project,
\* get_next_view_for_project and get_prev_view_for_project.
C23_HandleIsSnapshot ==
    [][\A h \in ProjectHandles :
          /\ get_active_view_for_project(h)' = get_active_view_for_project(h)
          /\ get_next_view_for_project(h)' = get_next_view_for_project(h)
          /\ get_prev_view_for_project(h)' = get_prev_view_for_project(h)]_vars

\* C23, amended: the three methods resolve the active view from the
\* active_view_id of the Project value passed in, so a later
\* set_active_view_for_project, which changes only the stored row, changes
\* none of their results, and no step changes get_active_view_for_project.
\* get_next_view_for_project and get_prev_view_for_project search the stored
\* views: when add_view_to_project commits a view of the project, a value
\* whose active view was the last one gets the new view as next in place of
\* the first, and a value whose active view is the first gets the new view as
\* previous in place of the former last; every other result stays.
C23_HandleResults ==
    [][\A h \in ProjectHandles :
          LET active == get_active_view_for_project(h)
              mine == ViewsOf(h.id)
          IN  /\ get_active_view_for_project(h)' = active
              /\ AddedTo(h) = {} =>
                    /\ get_next_view_for_project(h)' = get_next_view_for_project(h)
                    /\ get_prev_view_for_project(h)' = get_prev_view_for_project(h)
              /\ (AddedTo(h) # {} /\ active # NoView) =>
                    /\ get_next_view_for_project(h)' =
                          IF \A w \in mine : w.position <= active.position
                          THEN CHOOSE v \in AddedTo(h) : TRUE
                          ELSE get_next_view_for_project(h)
                    /\ get_prev_view_for_project(h)' =
                          IF \A w \in mine : w.position >= active.position
                          THEN CHOOSE v \in AddedTo(h) : TRUE
                          ELSE get_prev_view_for_project(h)]_vars

\* set_active_view_for_project has just moved the stored active view of a
\* project while a Project value loaded before still names another view, and
\* the next view of that value is not the next view of the stored row.
C23_Witness ==
    /\ IsSetActive(last) /\ last.result = "Ok"
    /\ \E h \in ProjectHandles : \E r \in projects :
          /\ h.id = r.id /\ r.id = last.project_id
          /\ r.active_view_id = last.view.id
          /\ h.active_view_id # r.active_view_id
          /\ get_active_view_for_project(h).id = h.active_view_id
          /\ get_next_view_for_project(h) # get_next_view_for_project(r)
====
